---------------------------- MODULE Spec2Model ----------------------------
(***************************************************************************)
(* A model of telgo, a telnet line-command server.                         *)
(*                                                                         *)
(* The module holds three specifications over one set of variables:        *)
(*   SpecScan  the frame scanner (scanLines, dropIAC, dropCR, handleIac)   *)
(*             driven by bufio.Scanner over a byte stream that arrives in  *)
(*             arbitrary chunks;                                           *)
(*   SpecEsc   the escaping of text written with WriteString and its way   *)
(*             back through dropIAC;                                       *)
(*   Spec      one session: the session loop (handle), the reader (recv),  *)
(*             the writer (send) and the command executors (handleCmd,     *)
(*             runGreeter), communicating over Go channels.                *)
(* Bytes are natural numbers 0..255; byte strings are sequences of bytes.  *)
(* Indexes into byte strings are 0-based as in the source, -1 is "absent". *)
(***************************************************************************)
EXTENDS Integers, Sequences, FiniteSets, TLC

(***************************************************************************)
(* Protocol constants and the option table                                 *)
(***************************************************************************)
bEOT == 4
bIAC == 255
bDONT == 254
bDO == 253
bWONT == 252
bWILL == 251
bIP == 244
chNL == 10
chCR == 13

\* The largest int, which compareIdx substitutes for an absent index.
MaxInt == 2147483647

\* telnetCmds[b].length, with the callers' default of 2 for an unknown command.
TelnetCmdLength(b) == IF b \in {bDONT, bDO, bWONT, bWILL} THEN 3 ELSE 2

(***************************************************************************)
(* Bounds of the model                                                     *)
(***************************************************************************)
\* The longest byte stream fed to the scanner.
MaxStream == 4
\* The longest text written with WriteString.
MaxText == 3
\* The number of items (control sequences, lines, end-of-transmission) the
\* reader of a session takes from the connection.
MaxInput == 2
\* The number of steps (writes, cancellation checks) a handler takes before
\* it returns.
MaxSteps == 2
\* The longest command line given to the tokenizer, the line of the
\* specification's example apart.
MaxCmdLen == 3

\* The bytes streams and texts are drawn from.
Alphabet == {bIAC, bWILL, bIP, chNL, bEOT, chCR, 97}

RECURSIVE SeqsUpTo(_, _)
SeqsUpTo(S, n) ==
    IF n = 0 THEN {<<>>}
    ELSE LET shorter == SeqsUpTo(S, n - 1)
         IN  shorter \cup {Append(s, x) : s \in {t \in shorter : Len(t) = n - 1}, x \in S}

(***************************************************************************)
(* Byte-string helpers with the source's 0-based slices                    *)
(***************************************************************************)
\* data[a:b]
Slice(data, a, b) == SubSeq(data, a + 1, b)

\* data[a:]
SliceFrom(data, a) == SubSeq(data, a + 1, Len(data))

\* bytes.IndexByte(data, b)
IndexByte(data, b) ==
    IF \E i \in 1..Len(data) : data[i] = b
    THEN (CHOOSE i \in 1..Len(data) : data[i] = b /\ \A j \in 1..(i - 1) : data[j] # b) - 1
    ELSE -1

\* data[i] of the source
At(data, i) == data[i + 1]

(***************************************************************************)
(* dropCR, dropIAC, compareIdx, handleIac                                  *)
(***************************************************************************)
dropCR(data) ==
    IF Len(data) > 0 /\ At(data, Len(data) - 1) = chCR
    THEN Slice(data, 0, Len(data) - 1)
    ELSE data

RECURSIVE dropIACLoop(_, _, _)
dropIACLoop(data, iiac0, token) ==
    LET niiac == IndexByte(SliceFrom(data, iiac0), bIAC)
    IN  IF niiac >= 0
        THEN LET tok1 == token \o Slice(data, iiac0, iiac0 + niiac)
                 iiac == iiac0 + niiac
             IN  IF Len(data) - iiac < 2 THEN tok1
                 ELSE LET l == TelnetCmdLength(At(data, iiac + 1))
                      IN  IF Len(data) - iiac < l THEN tok1
                          ELSE dropIACLoop(data, iiac + l,
                                   IF At(data, iiac + 1) = bIAC
                                   THEN Append(tok1, bIAC) ELSE tok1)
        ELSE token \o SliceFrom(data, iiac0)

dropIAC(data) == dropIACLoop(data, 0, <<>>)

\* compareIdx without the replacement of -1: "not found" is the lowest index.
compareIdxPlain(a, b) == a - b

compareIdx(a, b) ==
    (IF a < 0 THEN MaxInt ELSE a) - (IF b < 0 THEN MaxInt ELSE b)

\* handleIac rewrites iac[1] in place and decides whether iac goes to iacout.
handleIac(iac) ==
    LET c == iac[2]
    IN  IF c \in {bWILL, bWONT} THEN [iac |-> [iac EXCEPT ![2] = bDONT], send |-> TRUE]
        ELSE IF c \in {bDO, bDONT} THEN [iac |-> [iac EXCEPT ![2] = bWONT], send |-> TRUE]
        ELSE IF c = bIP THEN [iac |-> iac, send |-> TRUE]
        ELSE [iac |-> iac, send |-> FALSE]

(***************************************************************************)
(* scanLines.  The result holds the split function's return values         *)
(* (advance, token, and has: token # nil), the carried offset lastiiac,    *)
(* the sequences handed to iacout in order, and the read buffer, which     *)
(* handleIac has written to.                                               *)
(***************************************************************************)
NeedMore(data, last, out) ==
    [advance |-> 0, token |-> <<>>, has |-> FALSE, lastiiac |-> last, out |-> out, data |-> data]

\* scanTail without its test of atEOF: whatever is buffered is a line.
scanTailIgnoringEOF(data, atEOF, last, out) ==
    [advance |-> Len(data), token |-> dropCR(data), has |-> TRUE,
     lastiiac |-> last, out |-> out, data |-> data]

\* The end of the loop: no delimiter and no control byte was found.
scanTail(data, atEOF, last, out) ==
    IF atEOF
    THEN [advance |-> Len(data), token |-> dropCR(data), has |-> TRUE,
          lastiiac |-> last, out |-> out, data |-> data]
    ELSE NeedMore(data, last, out)

RECURSIVE scanLoop(_, _, _, _, _, _, _)
scanLoop(data, atEOF, inl, ieot, iiac0, last, out) ==
    LET niiac == IndexByte(SliceFrom(data, iiac0), bIAC)
        iiac == IF niiac >= 0 THEN iiac0 + niiac ELSE niiac
    IN  IF inl >= 0 /\ compareIdx(inl, ieot) < 0 /\ compareIdx(inl, iiac) < 0
        THEN [advance |-> inl + 1, token |-> dropIAC(dropCR(Slice(data, 0, inl))),
              has |-> TRUE, lastiiac |-> 0, out |-> out, data |-> data]
        ELSE IF ieot >= 0 /\ compareIdx(ieot, iiac) < 0
        THEN [advance |-> ieot + 1, token |-> Slice(data, ieot, ieot + 1),
              has |-> TRUE, lastiiac |-> 0, out |-> out, data |-> data]
        ELSE IF iiac >= 0
        THEN IF Len(data) - iiac < 2 THEN NeedMore(data, last, out)
             ELSE LET l == TelnetCmdLength(At(data, iiac + 1))
                  IN  IF Len(data) - iiac < l THEN NeedMore(data, last, out)
                      ELSE LET h == handleIac(Slice(data, iiac, iiac + l))
                               data1 == [data EXCEPT ![iiac + 2] = h.iac[2]]
                               out1 == IF h.send THEN Append(out, h.iac) ELSE out
                           IN  scanLoop(data1, atEOF, inl, ieot, iiac + l, iiac + l, out1)
        ELSE scanTail(data, atEOF, last, out)

scanLines(data, atEOF, lastiiac) ==
    IF atEOF /\ Len(data) = 0
    THEN NeedMore(data, lastiiac, <<>>)
    ELSE scanLoop(data, atEOF, IndexByte(data, chNL), IndexByte(data, bEOT),
                  lastiiac, lastiiac, <<>>)


(***************************************************************************)
(* WriteString's escaping: bytes.Replace(text, {IAC}, {IAC, IAC}, -1)      *)
(***************************************************************************)
\* bytes.Replace with n = 1 in place of -1: only the first control byte is doubled.
EscapeFirstOnly(text) ==
    LET i == IndexByte(text, bIAC)
    IN  IF i < 0 THEN text
        ELSE Slice(text, 0, i + 1) \o <<bIAC>> \o SliceFrom(text, i + 1)

RECURSIVE Escape(_)
Escape(text) ==
    IF Len(text) = 0 THEN <<>>
    ELSE IF Head(text) = bIAC THEN <<bIAC, bIAC>> \o Escape(Tail(text))
    ELSE <<Head(text)>> \o Escape(Tail(text))

\* Sayln that forgets the line terminator.
LineWithoutTerminator(text) == text

\* Sayln's text: the formatted text and "\r\n".
Line(text) == text \o <<chCR, chNL>>

(***************************************************************************)
(* The command-line tokenizer                                              *)
(***************************************************************************)
chTAB == 9
chSPACE == 32
chQUOTE == 34
chBACKSLASH == 92

\* utf8.RuneError, the rune an invalid byte decodes to
RuneError == 65533

\* The rune that starts the non-empty string s and its width in bytes, as
\* the range over a string, strings.IndexFunc and the regexp package decode
\* it: a byte that starts no valid UTF-8 sequence is RuneError of width 1.
DecodeRune(s) ==
    LET n == Len(s)
        b1 == s[1]
        cont(k) == n >= k /\ s[k] \in 128..191
        lo2 == IF b1 = 224 THEN 160 ELSE IF b1 = 240 THEN 144 ELSE 128
        hi2 == IF b1 = 237 THEN 159 ELSE IF b1 = 244 THEN 143 ELSE 191
    IN  IF b1 < 128 THEN [r |-> b1, w |-> 1]
        ELSE IF b1 \in 194..223 /\ cont(2)
        THEN [r |-> (b1 - 192) * 64 + (s[2] - 128), w |-> 2]
        ELSE IF b1 \in 224..239 /\ n >= 2 /\ s[2] \in lo2..hi2 /\ cont(3)
        THEN [r |-> (b1 - 224) * 4096 + (s[2] - 128) * 64 + (s[3] - 128), w |-> 3]
        ELSE IF b1 \in 240..244 /\ n >= 2 /\ s[2] \in lo2..hi2 /\ cont(3) /\ cont(4)
        THEN [r |-> (b1 - 240) * 262144 + (s[2] - 128) * 4096 + (s[3] - 128) * 64
                        + (s[4] - 128), w |-> 4]
        ELSE [r |-> RuneError, w |-> 1]

\* string(b) for a byte b: the UTF-8 encoding of the rune with value b
EncodeByteAsRune(b) == IF b < 128 THEN <<b>> ELSE <<192 + (b \div 64), 128 + (b % 64)>>

\* unicode.IsSpace on the rune r
IsSpace(r) ==
    \/ r \in {9, 10, 11, 12, 13, 32, 133, 160, 5760, 8232, 8233, 8239, 8287, 12288}
    \/ r \in 8192..8202

\* A separator set for unquoted text that also stops at a backslash.
spacesQuotesAndBackslash(b) == IsSpace(b) \/ b = chQUOTE \/ b = chBACKSLASH

spacesAndQuotes(b) == IsSpace(b) \/ b = chQUOTE

backslashAndQuotes(b) == b = chBACKSLASH \/ b = chQUOTE

\* replEscapeChars on the character that follows the backslash
replEscapeChars(b) ==
    CASE b = 97 -> 7      \* \a
      [] b = 98 -> 8      \* \b
      [] b = 116 -> 9     \* \t
      [] b = 110 -> 10    \* \n
      [] b = 118 -> 11    \* \v
      [] b = 102 -> 12    \* \f
      [] b = 114 -> 13    \* \r
      [] OTHER -> b

\* replEscapeChars on the match m, a backslash and one rune: the switch on
\* the seven two-byte strings, and string(m[1]) otherwise, where m[1] is
\* the byte after the backslash.
ReplaceMatch(m) ==
    IF Len(m) = 2 /\ m[2] < 128 THEN <<replEscapeChars(m[2])>> ELSE EncodeByteAsRune(m[2])

\* escapeRe.ReplaceAllStringFunc(s, replEscapeChars) with escapeRe = `\\.`:
\* the dot matches one rune and does not match a newline.
RECURSIVE stripEscapeChars(_)
stripEscapeChars(s) ==
    IF Len(s) = 0 THEN <<>>
    ELSE IF s[1] = chBACKSLASH /\ Len(s) >= 2 /\ s[2] # chNL
         THEN LET w == DecodeRune(Tail(s)).w
              IN  ReplaceMatch(SubSeq(s, 1, 1 + w))
                      \o stripEscapeChars(SubSeq(s, 2 + w, Len(s)))
         ELSE <<s[1]>> \o stripEscapeChars(Tail(s))

\* strings.IndexFunc(s, f) from byte offset k on, with f the separator set
\* of the current mode: the byte index of the first rune that satisfies f.
RECURSIVE IndexFuncFrom(_, _, _)
IndexFuncFrom(s, k, foundQuote) ==
    IF k >= Len(s) THEN -1
    ELSE LET d == DecodeRune(SliceFrom(s, k))
         IN  IF (IF foundQuote THEN backslashAndQuotes(d.r) ELSE spacesAndQuotes(d.r))
             THEN k
             ELSE IndexFuncFrom(s, k + d.w, foundQuote)

IndexSep(s, foundQuote) == IndexFuncFrom(s, 0, foundQuote)

\* The errors of splitCmdArguments.
ErrNone == "none"
ErrClosingMissing == "closing \" is missing"
ErrSpaceAfterQuote == "there must be a space after a closing \""
ErrSoleBackslash == "sole \\ at the end and no closing \""

SplitResult(cmds, err, hang) == [cmds |-> cmds, err |-> err, hang |-> hang]

\* The loop of splitCmdArguments.  sepFunc is backslashAndQuotes exactly
\* when foundQuote holds.  hang: the loop repeats without changing its state.
RECURSIVE splitLoop(_, _, _, _)
splitLoop(cmdstr, foundQuote, lastesc, cmds) ==
    LET i0 == IndexSep(SliceFrom(cmdstr, lastesc), foundQuote)
        i == i0 + lastesc
    IN  IF i0 < 0
        THEN SplitResult(IF Len(cmdstr) > 0 THEN Append(cmds, cmdstr) ELSE cmds,
                         IF foundQuote THEN ErrClosingMissing ELSE ErrNone, FALSE)
        ELSE IF At(cmdstr, i) \in {chTAB, chSPACE}
        THEN splitLoop(SliceFrom(cmdstr, i + 1), foundQuote, 0,
                       IF i > 0 THEN Append(cmds, Slice(cmdstr, 0, i)) ELSE cmds)
        ELSE IF At(cmdstr, i) = chQUOTE
        THEN IF foundQuote
             THEN LET cmds1 == Append(cmds, stripEscapeChars(Slice(cmdstr, 0, i)))
                  IN  IF Len(cmdstr) = i + 1 THEN SplitResult(cmds1, ErrNone, FALSE)
                      ELSE IF ~IsSpace(At(cmdstr, i + 1))
                           THEN SplitResult(cmds1, ErrSpaceAfterQuote, FALSE)
                           ELSE splitLoop(SliceFrom(cmdstr, i + 1), FALSE, 0, cmds1)
             ELSE splitLoop(SliceFrom(cmdstr, i + 1), TRUE, 0, cmds)
        ELSE IF At(cmdstr, i) = chBACKSLASH
        THEN IF Len(cmdstr) - i < 2 THEN SplitResult(cmds, ErrSoleBackslash, FALSE)
             ELSE splitLoop(cmdstr, foundQuote, i + 2, cmds)
        ELSE SplitResult(cmds, ErrNone, TRUE)

splitCmdArguments(cmdstr) == splitLoop(cmdstr, FALSE, 0, <<>>)

(***************************************************************************)
(* State                                                                   *)
(***************************************************************************)
VARIABLES
    \* SpecScan: bufio.Scanner over the connection, as recv drives it
    stream,     \* the bytes the client sends, then end of stream
    rest,       \* the bytes not yet read from the connection
    buf,        \* the scanner's unconsumed bytes, s.buf[s.start:s.end]
    eof,        \* s.err # nil: the connection reported the end of the stream
    lastiiac,   \* the offset scanLines carries across calls
    tokens,     \* the tokens Scan returned: [tok, raw, final]
    iacsent,    \* the sequences scanLines handed to iacout, in order
    sphase,     \* "idle", "read", "split" or "done"
    midcut,     \* a read has added bytes behind an incomplete control sequence
    \* SpecEsc: a text on its way from WriteString to the peer's scanner
    etext,      \* the text handed to WriteString
    ewire,      \* the bytes send wrote to the transport
    eback,      \* dropIAC of the bytes on the wire
    ephase,     \* "idle", "text", "stdout", "wire" or "back"
    \* SpecSplit: one call of splitCmdArguments
    cmdline,    \* the line handleCmd was given
    cmdres,     \* what splitCmdArguments returned: [cmds, err, hang]
    tphase,     \* "idle", "line" or "done"
    \* Spec: one session
    greeter,    \* c.greeter # nil
    dflt,       \* c.dfltCmd # nil
    Prompt,     \* c.Prompt, the prompt override; empty: the server's prompt
    hpc,        \* handle: where the session loop is
    hnext,      \* handle: "idle" when busy = false follows the prompt being written
    busy,       \* handle: its local busy
    closeCause, \* handle: why it returned: "none", "input" or "quit"
    rpc,        \* recv: "scan", "sendiac", "sendline" or "done"
    ritem,      \* recv: what it is sending: [bytes, id]
    rcount,     \* recv: the number of items taken from the connection
    inClosed,   \* the channel in is closed
    wpc,        \* send: "select", "cancel", "write" or "done"
    wunit,      \* send: what it received: [bytes, id]
    Cancel,     \* c.Cancel, a channel of capacity 1; each entry is tagged
                \* with the item that set it (0: the session closing)
    quitClosed, \* c.quitSend is closed
    connClosed, \* c.Conn is closed
    wire,       \* the units written to the transport, one per Write and Flush
    execs,      \* the executors: handleCmd and runGreeter goroutines
    nspawn,     \* the number of executors spawned
    busyLines,  \* the lines (ids) the session loop received while busy
    ndup        \* the number of cancel() calls that found c.Cancel set

scanVars == <<stream, rest, buf, eof, lastiiac, tokens, iacsent, sphase, midcut>>

escVars == <<etext, ewire, eback, ephase>>

sessVars == <<greeter, dflt, Prompt, hpc, hnext, busy, closeCause, rpc, ritem, rcount, inClosed, wpc, wunit,
              Cancel, quitClosed, connClosed, wire, execs, nspawn, busyLines, ndup>>

splitVars == <<cmdline, cmdres, tphase>>

vars == <<scanVars, escVars, sessVars, splitVars>>

\* An executor's slot before it is spawned.
ExecNone ==
    [pc |-> "none", line |-> 0, cmd |-> <<>>, args |-> <<>>, handler |-> "none",
     steps |-> 0, quit |-> FALSE, seen |-> -1, after |-> "none", text |-> <<>>]

\* The executors' ids: the greeter and one per item of input.
ExecIds == 1..(MaxInput + 1)

NoItem == [bytes |-> <<>>, id |-> 0]

\* The values the variables of a specification hold while another one runs.
ScanIdle ==
    /\ stream = <<>> /\ rest = <<>> /\ buf = <<>> /\ eof = FALSE /\ lastiiac = 0
    /\ tokens = <<>> /\ iacsent = <<>> /\ sphase = "idle" /\ midcut = FALSE

EscIdle ==
    /\ etext = <<>> /\ ewire = <<>> /\ eback = <<>> /\ ephase = "idle"

SplitIdle ==
    /\ cmdline = <<>> /\ cmdres = SplitResult(<<>>, ErrNone, FALSE) /\ tphase = "idle"

SessIdle ==
    /\ greeter = FALSE /\ dflt = FALSE /\ Prompt = <<>>
    /\ hpc = "idle" /\ hnext = "keep" /\ busy = FALSE
    /\ closeCause = "none"
    /\ rpc = "idle" /\ ritem = NoItem /\ rcount = 0 /\ inClosed = FALSE
    /\ wpc = "idle" /\ wunit = NoItem
    /\ Cancel = <<>> /\ quitClosed = FALSE /\ connClosed = FALSE /\ wire = <<>>
    /\ execs = [e \in ExecIds |-> ExecNone] /\ nspawn = 0
    /\ busyLines = {} /\ ndup = 0

(***************************************************************************)
(* SpecScan: recv's loop over bufio.Scanner.Scan with scanLines as the     *)
(* split function                                                          *)
(***************************************************************************)
ScanInit ==
    /\ stream \in SeqsUpTo(Alphabet, MaxStream)
    /\ rest = stream
    /\ buf = <<>>
    /\ eof = FALSE
    /\ lastiiac = 0
    /\ tokens = <<>>
    /\ iacsent = <<>>
    /\ sphase = "read"
    /\ midcut = FALSE
    /\ EscIdle /\ SessIdle /\ SplitIdle

\* The bytes of the stream that the scanner has consumed so far.
Consumed == Len(stream) - Len(rest) - Len(buf)

\* Scan calls the split function on the unconsumed bytes; recv ends at the
\* end-of-transmission token and when Scan returns false.
ScanSplit ==
    /\ sphase = "split"
    /\ LET r == scanLines(buf, eof, lastiiac)
           tk == [tok |-> r.token,
                  raw |-> SubSeq(stream, Consumed + 1, Consumed + r.advance),
                  final |-> ~(chNL \in {buf[i] : i \in 1..r.advance})]
       IN  /\ buf' = SliceFrom(r.data, r.advance)
           /\ lastiiac' = r.lastiiac
           /\ iacsent' = iacsent \o r.out
           /\ tokens' = IF r.has THEN Append(tokens, tk) ELSE tokens
           /\ sphase' = IF r.has
                        THEN IF Len(r.token) > 0 /\ r.token[1] = bEOT THEN "done"
                             ELSE IF Len(buf') > 0 \/ eof THEN "split" ELSE "read"
                        ELSE IF eof THEN "done" ELSE "read"
    /\ UNCHANGED <<stream, rest, eof, midcut, escVars, sessVars, splitVars>>

\* The unconsumed bytes end inside a control sequence: after the control
\* byte, or after the command byte of a negotiation command.
EndsInsideSequence(data) ==
    \/ Len(data) >= 1 /\ data[Len(data)] = bIAC
    \/ Len(data) >= 2 /\ data[Len(data) - 1] = bIAC /\ TelnetCmdLength(data[Len(data)]) = 3

\* Scan reads more input: some bytes, and possibly the end of the stream.
ScanRead ==
    /\ sphase = "read"
    /\ \E k \in 0..Len(rest), e \in BOOLEAN :
          /\ k > 0 \/ e
          /\ e => k = Len(rest)
          /\ buf' = buf \o SubSeq(rest, 1, k)
          /\ rest' = SubSeq(rest, k + 1, Len(rest))
          /\ eof' = e
          /\ midcut' = (midcut \/ (k > 0 /\ EndsInsideSequence(buf)))
    /\ sphase' = "split"
    /\ UNCHANGED <<stream, lastiiac, tokens, iacsent, escVars, sessVars, splitVars>>

ScanNext == ScanSplit \/ ScanRead

SpecScan == ScanInit /\ [][ScanNext]_vars

\* The tokens of a stream that arrives in one read, followed by the end of
\* the stream.
RECURSIVE WholeRun(_, _, _, _)
WholeRun(data, atEOF, last, toks) ==
    LET r == scanLines(data, atEOF, last)
    IN  IF r.has
        THEN IF Len(r.token) > 0 /\ r.token[1] = bEOT THEN Append(toks, r.token)
             ELSE IF Len(r.data) > r.advance \/ atEOF
                  THEN WholeRun(SliceFrom(r.data, r.advance), atEOF, r.lastiiac,
                                Append(toks, r.token))
                  ELSE WholeRun(<<>>, TRUE, r.lastiiac, Append(toks, r.token))
        ELSE IF atEOF THEN toks
             ELSE WholeRun(r.data, TRUE, r.lastiiac, toks)

WholeTokens(s) ==
    IF Len(s) = 0 THEN WholeRun(s, TRUE, 0, <<>>) ELSE WholeRun(s, FALSE, 0, <<>>)

Toks == [i \in 1..Len(tokens) |-> tokens[i].tok]

(***************************************************************************)
(* SpecEsc: WriteString escapes a text and hands it to send, which writes  *)
(* it to the transport; the peer's dropIAC cleans it.                      *)
(***************************************************************************)
EscInit ==
    /\ etext \in SeqsUpTo(Alphabet, MaxText)
    /\ ewire = <<>>
    /\ eback = <<>>
    /\ ephase = "text"
    /\ ScanIdle /\ SessIdle /\ SplitIdle

\* WriteString: c.stdout <- bytes.Replace(...); send: c.writer.Write(data).
EscWriteString ==
    /\ ephase = "text"
    /\ ewire' = Escape(etext)
    /\ ephase' = "wire"
    /\ UNCHANGED <<etext, eback, scanVars, sessVars, splitVars>>

EscDropIAC ==
    /\ ephase = "wire"
    /\ eback' = dropIAC(ewire)
    /\ ephase' = "back"
    /\ UNCHANGED <<etext, ewire, scanVars, sessVars, splitVars>>

EscNext == EscWriteString \/ EscDropIAC

SpecEsc == EscInit /\ [][EscNext]_vars

(***************************************************************************)
(* SpecSplit: handleCmd's call of splitCmdArguments on one line            *)
(***************************************************************************)
\* The line  echo "a b" c\ d
EchoLine ==
    <<101, 99, 104, 111, chSPACE, chQUOTE, 97, chSPACE, 98, chQUOTE, chSPACE,
      99, chBACKSLASH, chSPACE, 100>>

SplitAlphabet == {97, chSPACE, chQUOTE, chBACKSLASH}

\* The lines handleCmd is given.
SplitInputs == SeqsUpTo(SplitAlphabet, MaxCmdLen) \cup {EchoLine}

SplitInit ==
    /\ cmdline \in SplitInputs
    /\ cmdres = SplitResult(<<>>, ErrNone, FALSE)
    /\ tphase = "line"
    /\ ScanIdle /\ EscIdle /\ SessIdle

\* cmdslice, err := splitCmdArguments(cmdstr)
SplitRun ==
    /\ tphase = "line"
    /\ cmdres' = splitCmdArguments(cmdline)
    /\ tphase' = "done"
    /\ UNCHANGED <<cmdline, scanVars, escVars, sessVars>>

SplitNext == SplitRun

SpecSplit == SplitInit /\ [][SplitNext]_vars

\* The tokenizer on lines over a wider alphabet: a vertical tab, the bytes of
\* a no-break space (C2 A0) and of e-acute (C3 A9), and some longer lines.
chVT == 11

SplitAlphabetAll == {97, chSPACE, chVT, chQUOTE, chBACKSLASH, 194, 160, 195, 169}

\* "\<e-acute>": a quoted token whose escaped character takes two bytes
QuotedEscapedEAcute == <<chQUOTE, chBACKSLASH, 195, 169, chQUOTE>>

\* "a\"\a \\": a quoted token with an escaped quote, an escaped letter a, a
\* space and an escaped backslash
QuotedEscapes ==
    <<chQUOTE, 97, chBACKSLASH, chQUOTE, chBACKSLASH, 97, chSPACE,
      chBACKSLASH, chBACKSLASH, chQUOTE>>

SplitLines == {EchoLine, QuotedEscapedEAcute, QuotedEscapes}

SplitInputsAll == SeqsUpTo(SplitAlphabetAll, MaxCmdLen) \cup SplitLines

SplitInitAll ==
    /\ cmdline \in SplitInputsAll
    /\ cmdres = SplitResult(<<>>, ErrNone, FALSE)
    /\ tphase = "line"
    /\ ScanIdle /\ EscIdle /\ SessIdle

SpecSplitAll == SplitInitAll /\ [][SplitNext]_vars

(***************************************************************************)
(* Spec: one session.  An unbuffered channel is a rendezvous: one action   *)
(* moves the sender and the receiver together.  The client's input is      *)
(* drawn item by item as the reader's scanner reaches it.                  *)
(***************************************************************************)
\* The capacity of c.Cancel.
CancelCap == 1

\* The server's prompt, the texts of handleCmd and a handler's output.
PromptText == <<62, 32>>
TextParseError == <<99, 97, 110, 39, 116>>
TextUnknown == <<117, 110, 107, 110, 111, 119, 110>>
TextOut == <<111, bIAC>>

\* The command table: one command, "k".
Commands == {<<107>>}

\* The lines the client sends: empty, blank, the command with an argument
\* ("k a"), the command's name in upper case ("K"), which is no entry of the
\* table, and an unterminated quote.
LineInputs == {<<>>, <<chSPACE>>, <<107, chSPACE, 97>>, <<75>>, <<chQUOTE>>}

\* The control sequences the client sends.
IacInputs == {<<bIAC, bWILL, 1>>, <<bIAC, bIP>>}

\* SpecIac: the four negotiations, interrupt-process and two commands
\* handleIac ignores (NOP and EOT as a command byte); the only line is the
\* command.
IacInputsAll ==
    {<<bIAC, c, 1>> : c \in {bWILL, bWONT, bDO, bDONT}}
        \cup {<<bIAC, bIP>>, <<bIAC, 241>>, <<bIAC, bEOT>>}

IacLineInputs == {<<107, chSPACE, 97>>}

\* SpecDflt: the lines that reach the lookup of handleCmd.
DfltLineInputs == {<<107, chSPACE, 97>>, <<75>>, <<chQUOTE, chQUOTE>>}

\* The session as Server.Run starts it, with or without a greeter.
SessStart ==
    /\ greeter \in BOOLEAN
    /\ Prompt = <<>>
    /\ hpc = "start" /\ hnext = "keep" /\ busy = FALSE /\ closeCause = "none"
    /\ rpc = "scan" /\ ritem = NoItem /\ rcount = 0 /\ inClosed = FALSE
    /\ wpc = "select" /\ wunit = NoItem
    /\ Cancel = <<>> /\ quitClosed = FALSE /\ connClosed = FALSE /\ wire = <<>>
    /\ execs = [e \in ExecIds |-> ExecNone] /\ nspawn = 0
    /\ busyLines = {} /\ ndup = 0
    /\ ScanIdle /\ EscIdle /\ SplitIdle

\* A server without a default command.
SessInit == SessStart /\ dflt = FALSE

\* A server with a default command or without, and without a greeter.
SessInitDflt == SessStart /\ ~greeter /\ dflt \in BOOLEAN

\* cancel() as a plain send, c.Cancel <- true: it waits while c.Cancel is set.
CancelReadyWhenEmpty(ch) == Len(ch) < CancelCap

\* cancel(): its select has a default, so the call never waits.
CancelReady(ch) == TRUE

\* cancel() on a channel without a bound: every call adds an entry.
CancelSendUnbounded(ch, tag) == Append(ch, tag)

\* cancel(): a send on c.Cancel that does not block.
CancelSend(ch, tag) == IF Len(ch) < CancelCap THEN Append(ch, tag) ELSE ch

\* handle without its deferred c.cancel()
DeferCancelMissing(ch) == ch

\* handle's deferred c.cancel()
DeferCancel(ch) == CancelSend(ch, 0)

\* handle without the test of busy.
LineActionIgnoringBusy(b, cmd) == IF Len(cmd) > 0 THEN "spawn" ELSE "prompt"

\* handle with the test of busy inside the test of len(cmd), as in an earlier
\* revision: an empty line is answered with the prompt also while busy.
LineActionBusyInside(b, cmd) ==
    IF Len(cmd) > 0 THEN (IF ~b THEN "spawn" ELSE "drop") ELSE "prompt"

\* handle that spawns an executor for every line it receives while not busy.
LineActionSpawnEmpty(b, cmd) == IF ~b THEN "spawn" ELSE "drop"

\* What handle does with a line it received: the nested ifs on busy and len(cmd).
LineAction(b, cmd) ==
    IF ~b THEN (IF Len(cmd) > 0 THEN "spawn" ELSE "prompt") ELSE "drop"

\* handle that writes the prompt first whether there is a greeter or not.
StartActionPromptFirst(g) == "prompt"

\* handle before its loop: the greeter is spawned, or the prompt written.
StartAction(g) == IF g THEN "greeter" ELSE "prompt"

\* handle that does not look at the value it received from done.
DoneActionIgnoringExit(exit) == "prompt"

\* writePrompt that always writes the server's prompt.
writePromptDefaultOnly(override) == PromptText

\* writePrompt: the text it hands to WriteString.
writePrompt(override) == IF override = <<>> THEN PromptText ELSE override

\* handle on an executor's completion message.
DoneAction(exit) == IF exit THEN "close" ELSE "prompt"

\* handleCmd that does not look at the tokenizer's error.
AfterTokenizeIgnoringErr(r) ==
    IF r.hang THEN "hang"
    ELSE IF Len(r.cmds) = 0 \/ r.cmds[1] = <<>> THEN "empty"
    ELSE "lookup"

\* handleCmd on the result of splitCmdArguments.
AfterTokenize(r) ==
    IF r.hang THEN "hang"
    ELSE IF r.err # ErrNone THEN "error"
    ELSE IF Len(r.cmds) = 0 \/ r.cmds[1] = <<>> THEN "empty"
    ELSE "lookup"

\* A lookup that compares names without regard to case.
ToLower(name) == [i \in 1..Len(name) |-> IF name[i] \in 65..90 THEN name[i] + 32 ELSE name[i]]

InTableIgnoringCase(name) == ToLower(name) \in {ToLower(c) : c \in Commands}

\* handleCmd's loop over the command table: cmdslice[0] == cmd.
InTable(name) == name \in Commands

\* handleCmd after the loop: the table's handler, the default one, or none.
Lookup(name, d) == IF InTable(name) THEN "table" ELSE IF d THEN "default" ELSE "none"

\* The bytes written as an earlier revision's WriteString wrote a text: up to
\* its first control byte in one write, the rest in another.
WriteFlushInPieces(w, data) ==
    LET i == IndexByte(data, bIAC)
    IN  IF i < 0 THEN Append(w, data)
        ELSE Append(Append(w, Slice(data, 0, i + 1)), SliceFrom(data, i + 1))

\* c.writer.Write(data); c.writer.Flush()
WriteFlush(w, data) == Append(w, data)

Running(e) == execs[e].pc \notin {"none", "finished"}

\* go c.handleCmd(cmd, done) and go c.runGreeter(done)
Spawned(pc, line, cmd) == [ExecNone EXCEPT !.pc = pc, !.line = line, !.cmd = cmd]

(***************************************************************************)
(* handle: the session loop                                                *)
(***************************************************************************)
HandleStart ==
    /\ hpc = "start"
    /\ IF StartAction(greeter) = "greeter"
       THEN /\ execs' = [execs EXCEPT ![nspawn + 1] =
                           [Spawned("run", 0, <<>>) EXCEPT !.handler = "greeter"]]
            /\ nspawn' = nspawn + 1
            /\ busy' = TRUE
            /\ hpc' = "select"
       ELSE /\ hpc' = "prompt"
            /\ UNCHANGED <<execs, nspawn, busy>>
    /\ UNCHANGED <<greeter, dflt, Prompt, hnext, closeCause, rpc, ritem, rcount, inClosed, wpc, wunit, Cancel,
                   quitClosed, connClosed, wire, busyLines, ndup, scanVars, escVars, splitVars>>

\* writePrompt: WriteString's send on c.stdout is received by send.
HandlePrompt ==
    /\ hpc = "prompt"
    /\ wpc = "select"
    /\ wunit' = [bytes |-> Escape(writePrompt(Prompt)), id |-> 0]
    /\ wpc' = "write"
    /\ hpc' = "select"
    /\ busy' = IF hnext = "idle" THEN FALSE ELSE busy
    /\ hnext' = "keep"
    /\ UNCHANGED <<greeter, dflt, Prompt, closeCause, rpc, ritem, rcount, inClosed, Cancel, quitClosed,
                   connClosed, wire, execs, nspawn, busyLines, ndup, scanVars, escVars, splitVars>>

\* case cmd, ok := <-in with ok: recv's send on in is received.
HandleLine ==
    /\ hpc = "select"
    /\ rpc = "sendline"
    /\ rpc' = "scan"
    /\ ritem' = NoItem
    /\ busyLines' = IF busy THEN busyLines \cup {ritem.id} ELSE busyLines
    /\ LET act == LineAction(busy, ritem.bytes)
       IN  /\ execs' = IF act = "spawn"
                       THEN [execs EXCEPT ![nspawn + 1] =
                                 Spawned("tokenize", ritem.id, ritem.bytes)]
                       ELSE execs
           /\ nspawn' = IF act = "spawn" THEN nspawn + 1 ELSE nspawn
           /\ busy' = IF act = "spawn" THEN TRUE ELSE busy
           /\ hpc' = IF act = "prompt" THEN "prompt" ELSE "select"
    /\ UNCHANGED <<greeter, dflt, Prompt, hnext, closeCause, rcount, inClosed, wpc, wunit, Cancel, quitClosed,
                   connClosed, wire, ndup, scanVars, escVars, splitVars>>

\* case cmd, ok := <-in with !ok: in is closed.
HandleInputClosed ==
    /\ hpc = "select"
    /\ inClosed
    /\ hpc' = "defer_cancel"
    /\ closeCause' = "input"
    /\ UNCHANGED <<greeter, dflt, Prompt, hnext, busy, rpc, ritem, rcount, inClosed, wpc, wunit, Cancel,
                   quitClosed, connClosed, wire, execs, nspawn, busyLines, ndup,
                   scanVars, escVars, splitVars>>

\* case exit := <-done: an executor's send on done is received.
HandleDone(e) ==
    /\ hpc = "select"
    /\ execs[e].pc = "senddone"
    /\ execs' = [execs EXCEPT ![e] = [ExecNone EXCEPT !.pc = "finished"]]
    /\ IF DoneAction(execs[e].quit) = "close"
       THEN /\ hpc' = "defer_cancel"
            /\ closeCause' = "quit"
            /\ hnext' = hnext
       ELSE /\ hpc' = "prompt"
            /\ hnext' = "idle"
            /\ closeCause' = closeCause
    /\ UNCHANGED <<greeter, dflt, Prompt, busy, rpc, ritem, rcount, inClosed, wpc, wunit, Cancel, quitClosed,
                   connClosed, wire, nspawn, busyLines, ndup, scanVars, escVars, splitVars>>

\* The deferred calls, last first: c.cancel(), close(c.quitSend), c.Conn.Close().
HandleDeferCancel ==
    /\ hpc = "defer_cancel"
    /\ CancelReady(Cancel)
    /\ Cancel' = DeferCancel(Cancel)
    /\ hpc' = "defer_close"
    /\ UNCHANGED <<greeter, dflt, Prompt, hnext, busy, closeCause, rpc, ritem, rcount, inClosed, wpc, wunit,
                   quitClosed, connClosed, wire, execs, nspawn, busyLines, ndup,
                   scanVars, escVars, splitVars>>

HandleDeferClose ==
    /\ hpc = "defer_close"
    /\ quitClosed' = TRUE
    /\ hpc' = "defer_conn"
    /\ UNCHANGED <<greeter, dflt, Prompt, hnext, busy, closeCause, rpc, ritem, rcount, inClosed, wpc, wunit,
                   Cancel, connClosed, wire, execs, nspawn, busyLines, ndup, scanVars, escVars, splitVars>>

HandleDeferConn ==
    /\ hpc = "defer_conn"
    /\ connClosed' = TRUE
    /\ hpc' = "done"
    /\ UNCHANGED <<greeter, dflt, Prompt, hnext, busy, closeCause, rpc, ritem, rcount, inClosed, wpc, wunit,
                   Cancel, quitClosed, wire, execs, nspawn, busyLines, ndup, scanVars, escVars, splitVars>>

(***************************************************************************)
(* recv: the reader.  Each item is what the scanner finds next in the      *)
(* client's bytes: a control sequence that scanLines dispatches, a line    *)
(* token, the end-of-transmission token, or the end of the stream.         *)
(***************************************************************************)
ReaderIac(iac) ==
    /\ rpc = "scan"
    /\ rcount < MaxInput
    /\ LET h == handleIac(iac)
       IN  /\ rpc' = IF h.send THEN "sendiac" ELSE "scan"
           /\ ritem' = IF h.send THEN [bytes |-> h.iac, id |-> rcount + 1] ELSE NoItem
    /\ rcount' = rcount + 1
    /\ UNCHANGED <<greeter, dflt, Prompt, hpc, hnext, busy, closeCause, inClosed, wpc, wunit, Cancel,
                   quitClosed, connClosed, wire, execs, nspawn, busyLines, ndup,
                   scanVars, escVars, splitVars>>

ReaderLine(l) ==
    /\ rpc = "scan"
    /\ rcount < MaxInput
    /\ rpc' = "sendline"
    /\ ritem' = [bytes |-> l, id |-> rcount + 1]
    /\ rcount' = rcount + 1
    /\ UNCHANGED <<greeter, dflt, Prompt, hpc, hnext, busy, closeCause, inClosed, wpc, wunit, Cancel,
                   quitClosed, connClosed, wire, execs, nspawn, busyLines, ndup,
                   scanVars, escVars, splitVars>>

\* The end-of-transmission token: recv returns, and its defer closes in.
ReaderEOT ==
    /\ rpc = "scan"
    /\ rcount < MaxInput
    /\ rpc' = "done"
    /\ inClosed' = TRUE
    /\ rcount' = rcount + 1
    /\ UNCHANGED <<greeter, dflt, Prompt, hpc, hnext, busy, closeCause, ritem, wpc, wunit, Cancel,
                   quitClosed, connClosed, wire, execs, nspawn, busyLines, ndup,
                   scanVars, escVars, splitVars>>

\* Scan returns false: the client closed the connection, or the read failed
\* (as it does once handle has closed c.Conn).
ReaderEnd ==
    /\ rpc = "scan"
    /\ rpc' = "done"
    /\ inClosed' = TRUE
    /\ UNCHANGED <<greeter, dflt, Prompt, hpc, hnext, busy, closeCause, ritem, rcount, wpc, wunit, Cancel,
                   quitClosed, connClosed, wire, execs, nspawn, busyLines, ndup,
                   scanVars, escVars, splitVars>>

\* The bytes found where a sequence was in the scanner's buffer after Scan
\* has moved the unconsumed bytes down by two: the sequence's last byte and
\* the bytes of the line that follows it ("bb...").
Overwritten(iac) == SliceFrom(iac, 2) \o <<98, 98>>

\* handleIac sends a slice of the scanner's buffer on iacout.  recv goes on
\* as soon as send has received it, and when Scan needs room it moves the
\* unconsumed bytes to the start of the buffer, over the bytes send has not
\* written yet.
ReaderOverwrite ==
    /\ rpc = "scan"
    /\ wpc = "write"
    /\ wunit.id > 0
    /\ wunit.id <= rcount
    /\ Len(wunit.bytes) = 3
    /\ wunit.bytes[1] = bIAC
    /\ wunit' = [wunit EXCEPT !.bytes = Overwritten(wunit.bytes)]
    /\ UNCHANGED <<greeter, dflt, Prompt, hpc, hnext, busy, closeCause, rpc, ritem, rcount, inClosed,
                   wpc, Cancel, quitClosed, connClosed, wire, execs, nspawn, busyLines, ndup,
                   scanVars, escVars, splitVars>>

(***************************************************************************)
(* send: the writer                                                        *)
(***************************************************************************)
\* case _, ok := <-c.quitSend with !ok
WriterQuit ==
    /\ wpc = "select"
    /\ quitClosed
    /\ wpc' = "done"
    /\ UNCHANGED <<greeter, dflt, Prompt, hpc, hnext, busy, closeCause, rpc, ritem, rcount, inClosed, wunit,
                   Cancel, quitClosed, connClosed, wire, execs, nspawn, busyLines, ndup,
                   scanVars, escVars, splitVars>>

\* case iac := <-c.iacout: handleIac's send on iacout is received.
WriterIac ==
    /\ wpc = "select"
    /\ rpc = "sendiac"
    /\ wunit' = ritem
    /\ wpc' = IF ritem.bytes[2] = bIP THEN "cancel" ELSE "write"
    /\ rpc' = "scan"
    /\ ritem' = NoItem
    /\ UNCHANGED <<greeter, dflt, Prompt, hpc, hnext, busy, closeCause, rcount, inClosed, Cancel,
                   quitClosed, connClosed, wire, execs, nspawn, busyLines, ndup,
                   scanVars, escVars, splitVars>>

\* c.cancel() for an interrupt-process sequence
WriterCancel ==
    /\ wpc = "cancel"
    /\ CancelReady(Cancel)
    /\ Cancel' = CancelSend(Cancel, wunit.id)
    /\ ndup' = IF Len(Cancel) > 0 THEN ndup + 1 ELSE ndup
    /\ wpc' = "select"
    /\ wunit' = NoItem
    /\ UNCHANGED <<greeter, dflt, Prompt, hpc, hnext, busy, closeCause, rpc, ritem, rcount, inClosed,
                   quitClosed, connClosed, wire, execs, nspawn, busyLines, scanVars, escVars, splitVars>>

\* c.writer.Write(...); c.writer.Flush(): one unit reaches the transport,
\* unless the connection is closed.
WriterWrite ==
    /\ wpc = "write"
    /\ wire' = IF connClosed THEN wire ELSE WriteFlush(wire, wunit.bytes)
    /\ wpc' = "select"
    /\ wunit' = NoItem
    /\ UNCHANGED <<greeter, dflt, Prompt, hpc, hnext, busy, closeCause, rpc, ritem, rcount, inClosed, Cancel,
                   quitClosed, connClosed, execs, nspawn, busyLines, ndup, scanVars, escVars, splitVars>>

(***************************************************************************)
(* The executors: handleCmd, runGreeter, and the handler they call.  A     *)
(* handler is any sequence of at most MaxSteps writes and cancellation     *)
(* checks, followed by its return.                                         *)
(***************************************************************************)
\* handleCmd up to its first blocking point: splitCmdArguments and the
\* checks of its result.
ExecTokenize(e) ==
    /\ execs[e].pc = "tokenize"
    /\ LET r == splitCmdArguments(execs[e].cmd)
           a == AfterTokenize(r)
       IN  execs' = [execs EXCEPT ![e] =
               IF a = "hang" THEN [@ EXCEPT !.pc = "hang"]
               ELSE IF a = "error"
               THEN [@ EXCEPT !.pc = "say_check", !.text = Line(TextParseError),
                              !.after = "senddone"]
               ELSE IF a = "empty"
               THEN [@ EXCEPT !.pc = "senddone"]
               ELSE [@ EXCEPT !.pc = "clear", !.args = r.cmds]]
    /\ UNCHANGED <<greeter, dflt, Prompt, hpc, hnext, busy, closeCause, rpc, ritem, rcount, inClosed, wpc,
                   wunit, Cancel, quitClosed, connClosed, wire, nspawn, busyLines, ndup,
                   scanVars, escVars, splitVars>>

\* handleCmd: the pending cancel request is consumed, then the command is
\* looked up.
ExecClear(e) ==
    /\ execs[e].pc = "clear"
    /\ Cancel' = IF Len(Cancel) > 0 THEN Tail(Cancel) ELSE Cancel
    /\ execs' = [execs EXCEPT ![e] =
           LET h == Lookup(execs[e].args[1], dflt)
           IN  IF h # "none"
               THEN [@ EXCEPT !.pc = "run", !.handler = h]
               ELSE [@ EXCEPT !.pc = "say_check", !.text = Line(TextUnknown),
                              !.after = "senddone"]]
    /\ UNCHANGED <<greeter, dflt, Prompt, hpc, hnext, busy, closeCause, rpc, ritem, rcount, inClosed, wpc,
                   wunit, quitClosed, connClosed, wire, nspawn, busyLines, ndup,
                   scanVars, escVars, splitVars>>

\* A handler calls Say, Sayln or WriteString.
HandlerSay(e) ==
    /\ execs[e].pc = "run"
    /\ execs[e].steps < MaxSteps
    /\ execs' = [execs EXCEPT ![e].pc = "say_check", ![e].text = TextOut,
                              ![e].after = "run", ![e].steps = @ + 1]
    /\ UNCHANGED <<greeter, dflt, Prompt, hpc, hnext, busy, closeCause, rpc, ritem, rcount, inClosed, wpc,
                   wunit, Cancel, quitClosed, connClosed, wire, nspawn, busyLines, ndup,
                   scanVars, escVars, splitVars>>

\* A handler checks c.Cancel without blocking: select with a default.
HandlerPoll(e) ==
    /\ execs[e].pc = "run"
    /\ execs[e].steps < MaxSteps
    /\ Cancel' = IF Len(Cancel) > 0 THEN Tail(Cancel) ELSE Cancel
    /\ execs' = [execs EXCEPT ![e].steps = @ + 1,
                              ![e].seen = IF Len(Cancel) > 0 THEN Head(Cancel) ELSE @]
    /\ UNCHANGED <<greeter, dflt, Prompt, hpc, hnext, busy, closeCause, rpc, ritem, rcount, inClosed, wpc,
                   wunit, quitClosed, connClosed, wire, nspawn, busyLines, ndup,
                   scanVars, escVars, splitVars>>

\* A handler or the greeter assigns c.Prompt.
HandlerSetPrompt(e, override) ==
    /\ execs[e].pc = "run"
    /\ execs[e].steps < MaxSteps
    /\ Prompt' = override
    /\ execs' = [execs EXCEPT ![e].steps = @ + 1]
    /\ UNCHANGED <<greeter, dflt, hpc, hnext, busy, closeCause, rpc, ritem, rcount, inClosed, wpc,
                   wunit, Cancel, quitClosed, connClosed, wire, nspawn, busyLines, ndup,
                   scanVars, escVars, splitVars>>

\* The handler returns q.
HandlerReturn(e, q) ==
    /\ execs[e].pc = "run"
    /\ execs' = [execs EXCEPT ![e].pc = "senddone", ![e].quit = q]
    /\ UNCHANGED <<greeter, dflt, Prompt, hpc, hnext, busy, closeCause, rpc, ritem, rcount, inClosed, wpc,
                   wunit, Cancel, quitClosed, connClosed, wire, nspawn, busyLines, ndup,
                   scanVars, escVars, splitVars>>

\* WriteString's first select: it returns false when c.quitSend is closed.
ExecSayCheck(e) ==
    /\ execs[e].pc = "say_check"
    /\ execs' = [execs EXCEPT ![e] =
           IF quitClosed
           THEN [@ EXCEPT !.pc = execs[e].after, !.after = "none", !.text = <<>>]
           ELSE [@ EXCEPT !.pc = "say_send"]]
    /\ UNCHANGED <<greeter, dflt, Prompt, hpc, hnext, busy, closeCause, rpc, ritem, rcount, inClosed, wpc,
                   wunit, Cancel, quitClosed, connClosed, wire, nspawn, busyLines, ndup,
                   scanVars, escVars, splitVars>>

\* WriteString's send on c.stdout is received by send.
ExecSaySend(e) ==
    /\ execs[e].pc = "say_send"
    /\ wpc = "select"
    /\ wunit' = [bytes |-> Escape(execs[e].text), id |-> 0]
    /\ wpc' = "write"
    /\ execs' = [execs EXCEPT ![e].pc = execs[e].after, ![e].after = "none",
                              ![e].text = <<>>]
    /\ UNCHANGED <<greeter, dflt, Prompt, hpc, hnext, busy, closeCause, rpc, ritem, rcount, inClosed, Cancel,
                   quitClosed, connClosed, wire, nspawn, busyLines, ndup, scanVars, escVars, splitVars>>

\* What the session does whatever the client sends.
SessionStep ==
    \/ HandleStart \/ HandlePrompt \/ HandleLine \/ HandleInputClosed
    \/ \E e \in ExecIds : HandleDone(e)
    \/ HandleDeferCancel \/ HandleDeferClose \/ HandleDeferConn
    \/ ReaderEOT \/ ReaderEnd \/ ReaderOverwrite
    \/ WriterQuit \/ WriterIac \/ WriterCancel \/ WriterWrite
    \/ \E e \in ExecIds : ExecTokenize(e)
    \/ \E e \in ExecIds : ExecClear(e)
    \/ \E e \in ExecIds : HandlerSay(e)
    \/ \E e \in ExecIds : HandlerPoll(e)
    \/ \E e \in ExecIds, q \in BOOLEAN : HandlerReturn(e, q)
    \/ \E e \in ExecIds : ExecSayCheck(e)
    \/ \E e \in ExecIds : ExecSaySend(e)

Next ==
    \/ HandleStart \/ HandlePrompt \/ HandleLine \/ HandleInputClosed
    \/ \E e \in ExecIds : HandleDone(e)
    \/ HandleDeferCancel \/ HandleDeferClose \/ HandleDeferConn
    \/ \E iac \in IacInputs : ReaderIac(iac)
    \/ \E l \in LineInputs : ReaderLine(l)
    \/ ReaderEOT \/ ReaderEnd \/ ReaderOverwrite
    \/ WriterQuit \/ WriterIac \/ WriterCancel \/ WriterWrite
    \/ \E e \in ExecIds : ExecTokenize(e)
    \/ \E e \in ExecIds : ExecClear(e)
    \/ \E e \in ExecIds : HandlerSay(e)
    \/ \E e \in ExecIds : HandlerPoll(e)
    \/ \E e \in ExecIds, q \in BOOLEAN : HandlerReturn(e, q)
    \/ \E e \in ExecIds : ExecSayCheck(e)
    \/ \E e \in ExecIds : ExecSaySend(e)

Spec == SessInit /\ [][Next]_vars

\* SpecIac: the session with every kind of control sequence as input.
NextIac ==
    \/ SessionStep
    \/ \E iac \in IacInputsAll : ReaderIac(iac)
    \/ \E l \in IacLineInputs : ReaderLine(l)

SpecIac == SessInit /\ [][NextIac]_vars

\* SpecDflt: the session of a server with or without a default command.
NextDflt ==
    \/ SessionStep
    \/ \E iac \in IacInputs : ReaderIac(iac)
    \/ \E l \in DfltLineInputs : ReaderLine(l)

SpecDflt == SessInitDflt /\ [][NextDflt]_vars

\* A session whose handlers and greeter also assign c.Prompt: an override
\* "$ " or the empty string.
PromptOverride == <<36, 32>>

PromptValues == {<<>>, PromptOverride}

PromptLineInputs == {<<>>, <<107>>}

NextPrompt ==
    \/ SessionStep
    \/ \E e \in ExecIds, o \in PromptValues : HandlerSetPrompt(e, o)
    \/ \E iac \in IacInputs : ReaderIac(iac)
    \/ \E l \in PromptLineInputs : ReaderLine(l)

\* A server without a greeter and without a default command.
SessInitPrompt == SessStart /\ ~greeter /\ dflt = FALSE

SpecPrompt == SessInitPrompt /\ [][NextPrompt]_vars

\* SpecGreet: the session with or without a greeter, whose handlers and
\* greeter also assign c.Prompt; the client sends lines and no control
\* sequences.
NextGreet ==
    \/ HandleStart \/ HandlePrompt \/ HandleLine \/ HandleInputClosed
    \/ \E e \in ExecIds : HandleDone(e)
    \/ HandleDeferCancel \/ HandleDeferClose \/ HandleDeferConn
    \/ \E l \in PromptLineInputs : ReaderLine(l)
    \/ ReaderEOT \/ ReaderEnd
    \/ WriterQuit \/ WriterWrite
    \/ \E e \in ExecIds : ExecTokenize(e)
    \/ \E e \in ExecIds : ExecClear(e)
    \/ \E e \in ExecIds : HandlerSay(e)
    \/ \E e \in ExecIds : HandlerPoll(e)
    \/ \E e \in ExecIds, o \in PromptValues : HandlerSetPrompt(e, o)
    \/ \E e \in ExecIds, q \in BOOLEAN : HandlerReturn(e, q)
    \/ \E e \in ExecIds : ExecSayCheck(e)
    \/ \E e \in ExecIds : ExecSaySend(e)

SpecGreet == SessInit /\ [][NextGreet]_vars

\* SpecLive: the session under fair scheduling.  The client sends the
\* command "k", empty lines and control sequences; the server has no greeter
\* and no default command.
LiveLineInputs == {<<>>, <<107>>}

NextLive ==
    \/ SessionStep
    \/ \E iac \in IacInputs : ReaderIac(iac)
    \/ \E l \in LiveLineInputs : ReaderLine(l)

\* Every goroutine that can take a step of its own code takes it, and a
\* channel operation that stays possible happens.  Nothing is assumed of the
\* client (the reader's input) nor of what a handler chooses to do.
LiveFairness ==
    /\ WF_vars(HandleStart) /\ WF_vars(HandlePrompt)
    /\ WF_vars(HandleLine) /\ WF_vars(HandleInputClosed)
    /\ \A e \in ExecIds : WF_vars(HandleDone(e))
    /\ WF_vars(HandleDeferCancel) /\ WF_vars(HandleDeferClose) /\ WF_vars(HandleDeferConn)
    /\ WF_vars(WriterQuit) /\ WF_vars(WriterIac)
    /\ WF_vars(WriterCancel) /\ WF_vars(WriterWrite)
    /\ \A e \in ExecIds : WF_vars(ExecTokenize(e))
    /\ \A e \in ExecIds : WF_vars(ExecClear(e))
    /\ \A e \in ExecIds : WF_vars(ExecSayCheck(e))
    /\ \A e \in ExecIds : WF_vars(ExecSaySend(e))

SpecLive == SessInitPrompt /\ [][NextLive]_vars /\ LiveFairness

(***************************************************************************)
(* Properties                                                              *)
(***************************************************************************)
RunningExecs == {e \in ExecIds : Running(e)}

\* handle has returned or is running its deferred calls.
Closing == hpc \in {"defer_cancel", "defer_close", "defer_conn", "done"}

\* The number of occurrences of byte b in data.
RECURSIVE CountByte(_, _)
CountByte(data, b) ==
    IF Len(data) = 0 THEN 0
    ELSE (IF Head(data) = b THEN 1 ELSE 0) + CountByte(Tail(data), b)

\* data without its bytes b.
RECURSIVE WithoutByte(_, _)
WithoutByte(data, b) ==
    IF Len(data) = 0 THEN <<>>
    ELSE (IF Head(data) = b THEN <<>> ELSE <<Head(data)>>) \o WithoutByte(Tail(data), b)

\* C1: at most one executor (greeter or command handler) runs at any time;
\* the session loop spawns an executor only while it is idle and no executor
\* runs, and becomes idle again only when no executor runs any more, that
\* is after it has received the executor's completion.
C1_AtMostOneExecutor ==
    /\ [](Cardinality(RunningExecs) <= 1)
    /\ [][nspawn' > nspawn => (~busy /\ busy' /\ RunningExecs = {})]_vars
    /\ [][(busy /\ ~busy') => (RunningExecs = {} /\ RunningExecs' = {})]_vars

\* C1 witness: a second executor runs after the first one has completed.
C1_Witness == nspawn >= 2 /\ Cardinality(RunningExecs) = 1 /\ busy

\* C2: a line that reaches the session loop while it is busy is dropped: the
\* step that receives it spawns nothing, hands nothing to the writer and
\* leaves the loop where it was; no executor is ever spawned for such a line,
\* neither at once nor later.
C2_BusyLineDropped ==
    /\ [](\A e \in ExecIds : Running(e) => execs[e].line \notin busyLines)
    /\ [][(hpc = "select" /\ rpc = "sendline" /\ rpc' = "scan" /\ busy) =>
            (/\ execs' = execs /\ nspawn' = nspawn /\ busy' /\ hpc' = "select"
             /\ wpc' = wpc /\ wunit' = wunit /\ wire' = wire)]_vars
    /\ [][nspawn' > nspawn => execs'[nspawn'].line \notin busyLines']_vars

\* C2 witness: of two lines one was received while the first handler ran; the
\* handler has completed, the loop is idle again, and one executor was spawned.
C2_Witness ==
    /\ ~greeter /\ rcount = 2 /\ rpc = "scan" /\ Cardinality(busyLines) = 1
    /\ nspawn = 1 /\ ~busy /\ hpc = "select"

\* C3: however the stream is cut into reads, the scanner has returned the
\* tokens that it returns for the whole stream in one read: a prefix of them
\* at any time, all of them when it is done.
C3_ChunkingIndependent ==
    LET whole == WholeTokens(stream)
    IN  /\ Len(Toks) <= Len(whole)
        /\ Toks = SubSeq(whole, 1, Len(Toks))
        /\ sphase = "done" => Toks = whole

\* C3 witness: a read ended inside a control sequence and the scanner is done,
\* with a token returned.
C3_Witness == sphase = "done" /\ midcut /\ Len(tokens) >= 1 /\ Len(iacsent) >= 1

\* The stream holds one control sequence, the negotiation (IAC, WILL, X) at
\* index p (1-based), and is made of newline-terminated lines without
\* carriage returns.
OneWillAt(p) ==
    /\ p + 2 <= Len(stream)
    /\ stream[p] = bIAC /\ stream[p + 1] = bWILL
    /\ \A q \in 1..Len(stream) : stream[q] = bIAC => q \in {p, p + 2}
    /\ stream[Len(stream)] = chNL
    /\ \A q \in 1..Len(stream) : stream[q] # chCR
    /\ \A q \in 1..(p - 1) : stream[q] # bEOT

\* C4: when the scanner is done with a stream that holds the sequence
\* (IAC, WILL, X), it has handed one reply (IAC, DONT, X) to the writer and
\* has returned the tokens of the stream without the sequence.
C4_NegotiationHasNoTokenEffect ==
    \A p \in 1..Len(stream) :
        (sphase = "done" /\ OneWillAt(p)) =>
            /\ iacsent = <<<<bIAC, bDONT, stream[p + 2]>>>>
            /\ Toks = WholeTokens(SubSeq(stream, 1, p - 1) \o SliceFrom(stream, p + 2))

\* The doubled control bytes of the raw bytes of a line, the sequences being
\* read from the left.
RECURSIVE DoubledCount(_)
DoubledCount(raw) ==
    LET i == IndexByte(raw, bIAC)
    IN  IF i < 0 \/ Len(raw) - i < 2 THEN 0
        ELSE IF At(raw, i + 1) = bIAC THEN 1 + DoubledCount(SliceFrom(raw, i + 2))
        ELSE DoubledCount(SliceFrom(raw, i + TelnetCmdLength(At(raw, i + 1))))

\* A token holds no control byte but the literal ones of doubled control bytes.
TokenIsClean(tk) == CountByte(tk.tok, bIAC) = DoubledCount(tk.raw)

\* C5: every line token, newline-terminated or final, holds no control byte
\* of a control sequence: its control bytes are the literal ones that came
\* from doubled control bytes.
C5_LineTokensAreClean ==
    \A i \in 1..Len(tokens) : tokens[i].tok # <<bEOT>> => TokenIsClean(tokens[i])

\* C6: on the wire the text's control bytes are doubled and its other bytes
\* unchanged, and dropIAC of the wire's bytes is the text.
C6_EscapeRoundTrip ==
    /\ ephase \in {"wire", "back"} =>
          /\ CountByte(ewire, bIAC) = 2 * CountByte(etext, bIAC)
          /\ WithoutByte(ewire, bIAC) = WithoutByte(etext, bIAC)
          /\ Len(ewire) = Len(etext) + CountByte(etext, bIAC)
    /\ ephase = "back" => eback = etext

\* C6 witness: a text with two control bytes, one of them last, has come back.
C6_Witness ==
    /\ ephase = "back" /\ CountByte(etext, bIAC) >= 2
    /\ etext[Len(etext)] = bIAC /\ etext[1] # bIAC

\* C7: a handler never observes c.Cancel set by an interrupt-process
\* sequence that precedes the handler's command line in the stream.
C7_NoStaleInterrupt ==
    \A e \in ExecIds :
        Running(e) => ~(execs[e].seen >= 1 /\ execs[e].seen < execs[e].line)

\* C8: c.Cancel holds at most one entry; cancel() never blocks and, when
\* c.Cancel is set already, changes nothing; after a handler's check
\* c.Cancel is empty, so the next check finds it set only if an interrupt
\* arrived in between.
C8_SingleSlotCancel ==
    /\ [](Len(Cancel) <= 1)
    /\ [](wpc = "cancel" => ENABLED WriterCancel)
    /\ [][(wpc = "cancel" /\ wpc' # "cancel" /\ Len(Cancel) >= 1) => Cancel' = Cancel]_vars
    /\ [][\A e \in ExecIds :
            (execs[e].pc = "run" /\ execs'[e].pc = "run" /\ execs'[e].steps # execs[e].steps)
                => Len(Cancel') = 0]_vars

\* C8 witness: an interrupt arrived while c.Cancel was set, and the running
\* handler has observed the signal, which is clear now.
C8_Witness ==
    /\ ndup >= 1 /\ Len(Cancel) = 0
    /\ \E e \in ExecIds : execs[e].pc = "run" /\ execs[e].seen >= 1

\* C9: when in is closed the session loop can return from its select, idle or
\* busy, and runs its deferred calls without waiting; having returned for
\* that reason it spawns no executor and writes no prompt; its deferred
\* calls leave c.Cancel set, close c.quitSend and close the connection.
C9_CloseOnInputEnd ==
    /\ []((hpc = "select" /\ inClosed) => ENABLED HandleInputClosed)
    /\ []((hpc \in {"defer_cancel", "defer_close", "defer_conn"}) =>
             ENABLED (HandleDeferCancel \/ HandleDeferClose \/ HandleDeferConn))
    /\ [][closeCause = "input" => (nspawn' = nspawn /\ Closing /\ Closing')]_vars
    /\ [][(hpc = "defer_cancel" /\ hpc' # hpc) =>
            (Len(Cancel') = 1 /\ hpc' = "defer_close")]_vars
    /\ [][(hpc = "defer_close" /\ hpc' # hpc) => (quitClosed' /\ hpc' = "defer_conn")]_vars
    /\ [][(hpc = "defer_conn" /\ hpc' # hpc) => (connClosed' /\ hpc' = "done")]_vars
    /\ [](hpc = "done" => (quitClosed /\ connClosed))

\* C9 witness: the loop has returned because in was closed, while busy, and
\* the executor still runs.
C9_Witness ==
    /\ closeCause = "input" /\ hpc = "done" /\ busy /\ RunningExecs # {}
    /\ quitClosed /\ connClosed

\* C10: once the session loop has returned and nothing can take a step any
\* more, the reader, the writer and every executor have terminated.
C10_AllTasksStop ==
    (hpc = "done" /\ ~ENABLED Next) =>
        (rpc = "done" /\ wpc = "done" /\ RunningExecs = {})


\* C11: a call of WriteString made while the session shuts down does not
\* block: no executor is left in WriteString's send on c.stdout when the
\* writer has returned, and a call made when c.quitSend is closed returns
\* without handing its text over.
C11_WriteNeverBlocks ==
    \A e \in ExecIds : ~(execs[e].pc = "say_send" /\ wpc = "done")

\* The units of the session's output, byte by byte: the prompt, the two
\* messages of handleCmd with their line terminator, a handler's text with
\* its control byte doubled, and the reply to a negotiation.
UnitPrompt == <<62, 32>>
UnitParseError == <<99, 97, 110, 39, 116, chCR, chNL>>
UnitUnknown == <<117, 110, 107, 110, 111, 119, 110, chCR, chNL>>
UnitOut == <<111, bIAC, bIAC>>
UnitReplies == {<<bIAC, c, 1>> : c \in {bDONT, bWONT}}

TextUnits == {UnitPrompt, UnitParseError, UnitUnknown, UnitOut}

\* A unit of the writer that came from the reader: three bytes, the ones of
\* a reply or what the scanner's buffer held in their place.
ReplySized(u) == Len(u) = 3 /\ u # UnitOut

\* C12: what reaches the transport is a sequence of whole units, each the
\* bytes of one text write, with its doubled control bytes, or the three
\* bytes of one reply: the writer writes the unit it holds in one piece and
\* takes the next one only when that is written.
C12_WholeUnits ==
    /\ [](\A i \in 1..Len(wire) : wire[i] \in TextUnits \/ ReplySized(wire[i]))
    /\ [][wire' # wire =>
            (wpc = "write" /\ wpc' = "select" /\ wire' = Append(wire, wunit.bytes))]_vars
    /\ [][(wpc = "write" /\ wpc' # "write") => (wpc' = "select" /\ wunit' = NoItem)]_vars
    /\ [][(wpc = "write" /\ wpc' = "write") =>
            (wire' = wire /\ wunit'.id = wunit.id /\ Len(wunit'.bytes) = Len(wunit.bytes))]_vars
    /\ []((wpc = "write" /\ wunit.id = 0) => wunit.bytes \in TextUnits)

\* C12 witness: a reply was written right after a text with a doubled control
\* byte, while an executor and the reader were both at work.
C12_Witness ==
    /\ \E i \in 1..(Len(wire) - 1) : wire[i] = UnitOut /\ wire[i + 1] \in UnitReplies
    /\ RunningExecs # {} /\ rpc = "sendline"

\* What the dispatcher is to hand to the writer for a control sequence:
\* nothing (<<>>) for a command it ignores.
ExpectedReply(iac) ==
    IF iac[2] \in {bWILL, bWONT} THEN <<bIAC, bDONT, iac[3]>>
    ELSE IF iac[2] \in {bDO, bDONT} THEN <<bIAC, bWONT, iac[3]>>
    ELSE IF iac[2] = bIP THEN <<bIAC, bIP>>
    ELSE <<>>

\* handleIac's part of C13: the sequence handed to the writer, or nothing.
DispatchedAsExpected ==
    \A iac \in IacInputsAll :
        ReaderIac(iac) =>
            IF ExpectedReply(iac) = <<>>
            THEN rpc' = "scan" /\ ritem' = NoItem
            ELSE rpc' = "sendiac" /\ ritem'.bytes = ExpectedReply(iac)

\* send's part of C13 for interrupt-process: c.Cancel is set, nothing is
\* written, and the session loop and the executors are where they were.
InterruptSetsCancel ==
    (wpc = "cancel" /\ wpc' # "cancel") =>
        /\ Len(Cancel') = 1
        /\ wire' = wire /\ busy' = busy /\ hpc' = hpc /\ execs' = execs

\* send's part of C13 for a reply: the bytes written are the reply's.
ReplyWritten ==
    (wpc = "write" /\ wunit.id > 0 /\ wpc' # "write" /\ ~connClosed) =>
        /\ wunit.bytes \in UnitReplies
        /\ wire' = Append(wire, wunit.bytes)

\* C13: WILL X and WONT X give the reply DONT X, DO X and DONT X the reply
\* WONT X; interrupt-process gives no bytes on the wire and sets c.Cancel
\* without a change of busy; a doubled control byte and every other command
\* give no reply and change nothing.
C13_Dispatch ==
    /\ [][DispatchedAsExpected]_vars
    /\ [][InterruptSetsCancel]_vars
    /\ [][ReplyWritten]_vars
    /\ [](\A i \in 1..Len(wire) : ReplySized(wire[i]) => wire[i] \in UnitReplies)
    /\ [](scanLines(<<bIAC, bIAC, chNL>>, FALSE, 0).out = <<>>)

\* The units handed to the writer so far, in order: those written and the
\* one it holds.
Handed == IF wpc = "write" THEN Append(wire, wunit.bytes) ELSE wire

\* The texts among the units u, in order.
RECURSIVE TextsOf(_)
TextsOf(u) ==
    IF Len(u) = 0 THEN <<>>
    ELSE (IF ReplySized(Head(u)) THEN <<>> ELSE <<Head(u)>>) \o TextsOf(Tail(u))

\* The greeter of a session with a greeter has not completed yet: handle has
\* not received its completion message.
GreeterPending == greeter /\ execs[1].pc # "finished"

\* C14: with a greeter, handle starts busy and the greeter is the first
\* executor and the only one of its kind; until handle has received the
\* greeter's completion no prompt is handed to the writer and no line gets
\* an executor.  Without a greeter handle starts idle and the prompt is the
\* first text handed to the writer.
C14_GreeterFirst ==
    /\ [][(hpc = "start" /\ hpc' # "start") =>
            IF greeter
            THEN /\ busy' /\ nspawn' = 1 /\ hpc' = "select"
                 /\ execs'[1].handler = "greeter" /\ execs'[1].pc = "run"
            ELSE ~busy' /\ nspawn' = 0 /\ hpc' = "prompt"]_vars
    /\ [][(nspawn' > nspawn /\ hpc # "start") => execs'[nspawn'].handler # "greeter"]_vars
    /\ [](GreeterPending =>
            /\ \A i \in 1..Len(Handed) : Handed[i] # UnitPrompt
            /\ nspawn <= 1
            /\ hpc # "start" => busy)
    /\ []((~greeter /\ hpc = "start") => (TextsOf(Handed) = <<>> /\ nspawn = 0))
    /\ [][(~greeter /\ hpc = "prompt" /\ hpc' # "prompt") =>
            (wunit'.bytes = UnitPrompt /\ wpc' = "write" /\ hpc' = "select")]_vars
    /\ []((~greeter /\ ~connClosed /\ TextsOf(Handed) # <<>>) =>
             TextsOf(Handed)[1] = UnitPrompt)

\* C14 witness: the greeter wrote a text, a line came while it ran, and the
\* prompt was written after its completion; two units, the greeter's first.
C14_Witness ==
    /\ greeter /\ execs[1].pc = "finished" /\ nspawn = 1 /\ busyLines # {} /\ ~busy
    /\ wire = <<UnitOut, UnitPrompt>>

\* C15: on a completion message handle does one of two things.  If the
\* value is true it returns, and from then on hands no prompt to the writer
\* and spawns nothing.  Otherwise it hands one prompt to the writer and
\* then is idle.  busy becomes false in no other way.
C15_CompletionOutcome ==
    /\ [][\A e \in ExecIds :
            HandleDone(e) =>
                IF execs[e].quit
                THEN hpc' = "defer_cancel" /\ closeCause' = "quit" /\ wunit' = wunit
                ELSE hpc' = "prompt" /\ hnext' = "idle" /\ busy' /\ wunit' = wunit]_vars
    /\ [][closeCause = "quit" => (Closing /\ Closing' /\ nspawn' = nspawn)]_vars
    /\ [][(wunit' # wunit /\ wunit'.bytes = UnitPrompt) => (hpc = "prompt" /\ ~Closing)]_vars
    /\ [][(hpc = "prompt" /\ hnext = "idle" /\ hpc' # hpc) =>
            (/\ wunit'.bytes = UnitPrompt /\ wpc' = "write"
             /\ ~busy' /\ hpc' = "select" /\ hnext' = "keep")]_vars
    /\ [][(busy /\ ~busy') => (hpc = "prompt" /\ hnext = "idle")]_vars
    /\ [](hnext = "idle" => (hpc = "prompt" /\ busy /\ RunningExecs = {}))

\* C15 witness: the first executor returned false and the prompt followed;
\* the second returned true and the session is closed.
C15_Witness ==
    /\ closeCause = "quit" /\ hpc = "done" /\ nspawn = 2 /\ busy
    /\ \E i \in 1..Len(wire) : wire[i] = UnitPrompt

\* The last element of a non-empty sequence.
Last(u) == u[Len(u)]

\* C16: a line whose first token is in no table entry, with no default
\* handler, makes the executor write the unknown-command line and nothing
\* else; the next text the writer gets is the prompt.  In general, when the
\* prompt is handed to the writer no executor is running and everything
\* handed to the writer before has been written.  (Once the connection is
\* closed the writer's units are lost, so the order on the transport is
\* stated for an open connection.)
C16_UnknownThenPrompt ==
    /\ [][\A e \in ExecIds :
            (ExecClear(e) /\ Lookup(execs[e].args[1], dflt) = "none") =>
                (/\ Escape(execs'[e].text) = UnitUnknown
                 /\ execs'[e].after = "senddone"
                 /\ execs'[e].handler = "none")]_vars
    /\ [](\A e \in ExecIds :
            (execs[e].pc = "senddone" /\ execs[e].args # <<>>
                 /\ execs[e].handler = "none" /\ ~quitClosed) =>
                (busy /\ Last(TextsOf(Handed)) = UnitUnknown))
    /\ [][(wunit' # wunit /\ wunit'.bytes = UnitPrompt) =>
            (wpc = "select" /\ wunit = NoItem /\ RunningExecs = {} /\ Handed = wire
             /\ \A e \in ExecIds : execs[e].text = <<>>)]_vars
    /\ [](~connClosed =>
            LET t == TextsOf(Handed)
            IN  \A i \in 1..(Len(t) - 1) : t[i] = UnitUnknown => t[i + 1] = UnitPrompt)

\* C16 witness: without a greeter, the first line was an unknown command and
\* the transport holds the prompt, the message and the prompt.
C16_Witness ==
    /\ ~greeter /\ ~dflt /\ ~busy /\ nspawn = 1
    /\ wire = <<UnitPrompt, UnitUnknown, UnitPrompt>>

\* The three outcomes of handleCmd's lookup for executor e, whose tokens are
\* execs[e].args: the pending cancel request is consumed and then the table
\* handler of that exact name runs with all tokens, or else the default
\* handler, or else no handler runs and the unknown-command line is written.
LookupOutcome(e) ==
    ExecClear(e) =>
        /\ Len(Cancel') = 0
        /\ execs'[e].args = execs[e].args
        /\ IF execs[e].args[1] \in Commands
           THEN execs'[e].pc = "run" /\ execs'[e].handler = "table"
           ELSE IF dflt
           THEN execs'[e].pc = "run" /\ execs'[e].handler = "default"
           ELSE /\ execs'[e].pc = "say_check" /\ execs'[e].handler = "none"
                /\ Escape(execs'[e].text) = UnitUnknown
                /\ execs'[e].after = "senddone"

\* A handler runs only for an executor that went through the lookup.
HandlerOnlyAfterLookup ==
    \A e \in ExecIds :
        execs[e].handler \in {"table", "default"} =>
            /\ execs[e].args # <<>>
            /\ execs[e].args = splitCmdArguments(execs[e].cmd).cmds
            /\ (execs[e].handler = "table") = (execs[e].args[1] \in Commands)
            /\ (execs[e].handler = "default") => dflt

\* C17 as stated: every accepted line that tokenizes to at least one token
\* goes to the lookup, which has one of the three outcomes.
C17_LookupForAnyToken ==
    [][\A e \in ExecIds :
         /\ LookupOutcome(e)
         /\ LET r == splitCmdArguments(execs[e].cmd)
            IN  (ExecTokenize(e) /\ ~r.hang /\ r.err = ErrNone /\ Len(r.cmds) >= 1) =>
                    (execs'[e].pc = "clear" /\ execs'[e].args = r.cmds)]_vars

\* C17 as amended: every accepted line that tokenizes to at least one token,
\* the first of which is not empty, goes to the lookup, which has one of the
\* three outcomes; a line whose first token is empty is treated as an empty
\* line: no lookup, no handler, no message, the cancel request untouched.
C17_LookupForNonEmptyFirstToken ==
    /\ [][\A e \in ExecIds :
            /\ LookupOutcome(e)
            /\ LET r == splitCmdArguments(execs[e].cmd)
               IN  (ExecTokenize(e) /\ ~r.hang /\ r.err = ErrNone /\ Len(r.cmds) >= 1) =>
                       IF r.cmds[1] # <<>>
                       THEN execs'[e].pc = "clear" /\ execs'[e].args = r.cmds
                       ELSE /\ execs'[e].pc = "senddone" /\ execs'[e].handler = "none"
                            /\ execs'[e].text = <<>> /\ Cancel' = Cancel]_vars
    /\ []HandlerOnlyAfterLookup

\* C17 witness: with a default handler, an interrupt was followed by the
\* line K, which differs from the table's k only in case; the default
\* handler was invoked and the cancel request is gone.
C17_Witness ==
    /\ dflt /\ nspawn = 1 /\ wpc = "select" /\ Cancel = <<>>
    /\ \E e \in ExecIds :
          /\ execs[e].pc = "run" /\ execs[e].steps = 0 /\ execs[e].line = 2
          /\ execs[e].handler = "default" /\ execs[e].args = <<(<<75>>)>>

\* Executor e is past the tokenizer, which failed on its line.
ParseFailed(e) ==
    /\ execs[e].pc \in {"say_check", "say_send", "senddone", "clear", "run", "hang"}
    /\ execs[e].line > 0
    /\ splitCmdArguments(execs[e].cmd).err # ErrNone

\* C18: when the tokenizer fails on an accepted line, the executor only
\* writes the error line and reports completion with false: no lookup, no
\* handler, the cancel request untouched.  On that completion handle hands
\* the prompt to the writer and is idle, at its select.
C18_ParseErrorReported ==
    /\ [][\A e \in ExecIds :
            LET r == splitCmdArguments(execs[e].cmd)
            IN  (ExecTokenize(e) /\ ~r.hang /\ r.err # ErrNone) =>
                    (/\ execs'[e].pc = "say_check"
                     /\ Escape(execs'[e].text) = UnitParseError
                     /\ execs'[e].after = "senddone"
                     /\ Cancel' = Cancel)]_vars
    /\ [](\A e \in ExecIds :
            ParseFailed(e) =>
                (/\ execs[e].pc \in {"say_check", "say_send", "senddone"}
                 /\ execs[e].handler = "none" /\ execs[e].args = <<>>
                 /\ execs[e].steps = 0 /\ ~execs[e].quit /\ busy))
    /\ [][\A e \in ExecIds :
            (ParseFailed(e) /\ execs'[e] # execs[e]) => Cancel' = Cancel]_vars
    /\ [](\A e \in ExecIds :
            (ParseFailed(e) /\ execs[e].pc = "senddone" /\ ~quitClosed) =>
                LET t == TextsOf(Handed)
                IN  /\ Len(t) >= 1 /\ Last(t) = UnitParseError
                    /\ Len(t) >= 2 => t[Len(t) - 1] # UnitParseError)
    /\ [][\A e \in ExecIds :
            (ParseFailed(e) /\ HandleDone(e)) =>
                (hpc' = "prompt" /\ hnext' = "idle" /\ RunningExecs' = {})]_vars
    /\ [][(hpc = "prompt" /\ hpc' # hpc) =>
            (wunit'.bytes = UnitPrompt /\ ~busy' /\ hpc' = "select")]_vars

\* C18 witness: the first line, an opening quote without its closing one,
\* arrived while a cancel request was pending; the transport holds the
\* prompt, the error line and the prompt, the request is still pending and
\* the session is idle.
C18_Witness ==
    /\ ~greeter /\ ~busy /\ hpc = "select" /\ nspawn = 1 /\ Len(Cancel) = 1
    /\ wire = <<UnitPrompt, UnitParseError, UnitPrompt>>

\* C19: when handle is not busy and receives an empty line, it spawns no
\* executor and stays not busy; its next step hands exactly the prompt to
\* the writer and returns to its select, still not busy.
C19_EmptyLinePrompt ==
    /\ [][(HandleLine /\ ~busy /\ ritem.bytes = <<>>) =>
            (/\ hpc' = "prompt" /\ hnext' = "keep"
             /\ ~busy' /\ nspawn' = nspawn /\ execs' = execs
             /\ wunit' = wunit /\ wire' = wire)]_vars
    /\ [](hpc = "prompt" /\ hnext = "keep" => ~busy /\ RunningExecs = {})
    /\ [][(hpc = "prompt" /\ hnext = "keep") =>
            \/ hpc' = "prompt" /\ hnext' = "keep" /\ ~busy' /\ nspawn' = nspawn
            \/ /\ hpc' = "select" /\ wunit'.bytes = UnitPrompt /\ wpc' = "write"
               /\ wire' = wire /\ ~busy' /\ nspawn' = nspawn /\ execs' = execs]_vars

\* C19 witness: without a greeter the first line was empty; the transport
\* holds the first prompt and one more, no executor was ever spawned and
\* handle is at its select, not busy.
C19_Witness ==
    /\ ~greeter /\ rcount = 1 /\ rpc = "scan" /\ nspawn = 0 /\ ~busy /\ hpc = "select"
    /\ wire = <<UnitPrompt, UnitPrompt>>

\* The tokens of the line  echo "a b" c\ d  as the claim has them and as
\* the tokenizer returns them.
TokEcho == <<101, 99, 104, 111>>
TokAB == <<97, chSPACE, 98>>
EchoTokensJoined == <<TokEcho, TokAB, <<99, chSPACE, 100>>>>
EchoTokensSplit == <<TokEcho, TokAB, <<99, chBACKSLASH>>, <<100>>>>

\* The tokens of cmds, one after the other.
RECURSIVE Flatten(_)
Flatten(cmds) == IF Len(cmds) = 0 THEN <<>> ELSE Head(cmds) \o Flatten(Tail(cmds))

RECURSIVE EndsInQuote(_, _)
EndsInQuote(s, inq) ==
    IF Len(s) = 0 THEN inq
    ELSE IF inq /\ s[1] = chBACKSLASH
    THEN (IF Len(s) >= 2 THEN EndsInQuote(SubSeq(s, 3, Len(s)), TRUE) ELSE TRUE)
    ELSE IF s[1] = chQUOTE THEN EndsInQuote(Tail(s), ~inq)
    ELSE EndsInQuote(Tail(s), inq)

\* C21: for every line with an opening quote that has no matching unescaped
\* closing quote, the tokenizer returns, and returns a syntax error.
C21_UnterminatedQuoteIsError ==
    (tphase = "done" /\ EndsInQuote(cmdline, FALSE)) =>
        (~cmdres.hang /\ cmdres.err # ErrNone)

\* The byte index of the first quote that closes a quoted token of s, or -1:
\* the walk of EndsInQuote from byte offset k on.
RECURSIVE FirstClose(_, _, _)
FirstClose(s, k, inq) ==
    IF k >= Len(s) THEN -1
    ELSE IF inq /\ At(s, k) = chBACKSLASH THEN FirstClose(s, k + 2, TRUE)
    ELSE IF At(s, k) = chQUOTE
    THEN (IF inq THEN k ELSE FirstClose(s, k + 1, TRUE))
    ELSE FirstClose(s, k + 1, inq)

\* C22: when the first closing quote of a line is directly followed by a
\* character that is no whitespace, the tokenizer returns the error that a
\* space is missing; when it is followed by whitespace or by the end of the
\* line, the tokenizer returns without that error.
C22_SpaceAfterClosingQuote ==
    LET k == FirstClose(cmdline, 0, FALSE)
    IN  (tphase = "done" /\ k >= 0) =>
            /\ ~cmdres.hang
            /\ (cmdres.err = ErrSpaceAfterQuote) =
                   (k + 1 < Len(cmdline) /\ ~IsSpace(DecodeRune(SliceFrom(cmdline, k + 1)).r))

\* The number of backslashes at the end of s.
RECURSIVE TrailingBackslashes(_)
TrailingBackslashes(s) ==
    IF Len(s) = 0 \/ s[Len(s)] # chBACKSLASH THEN 0
    ELSE 1 + TrailingBackslashes(SubSeq(s, 1, Len(s) - 1))

\* C23: for every line that ends in a lone backslash (one that no backslash
\* before it escapes), inside or outside a quoted token, the tokenizer
\* returns, and returns a syntax error.
C23_TrailingBackslashIsError ==
    (tphase = "done" /\ TrailingBackslashes(cmdline) % 2 = 1) =>
        (~cmdres.hang /\ cmdres.err # ErrNone)

\* C25: splitCmdArguments terminates for every line, also for lines with
\* whitespace other than space and tab outside quotes.
C25_TokenizerTerminates == tphase = "done" => ~cmdres.hang

\* The text of a line without backslashes: its bytes without the quotes
\* and without the whitespace outside quoted tokens.
RECURSIVE TextOf(_, _)
TextOf(s, inq) ==
    IF Len(s) = 0 THEN <<>>
    ELSE IF s[1] = chQUOTE THEN TextOf(Tail(s), ~inq)
    ELSE IF ~inq /\ IsSpace(DecodeRune(s).r)
    THEN TextOf(SubSeq(s, 1 + DecodeRune(s).w, Len(s)), inq)
    ELSE <<s[1]>> \o TextOf(Tail(s), inq)

\* C26: the tokenizer loses no text.  On every line without backslashes for
\* which it returns tokens and no error, the tokens, one after the other,
\* are the text of the line; and on a line without quotes no token is empty.
C26_NoTextLost ==
    (tphase = "done" /\ CountByte(cmdline, chBACKSLASH) = 0
         /\ ~cmdres.hang /\ cmdres.err = ErrNone) =>
        /\ Flatten(cmdres.cmds) = TextOf(cmdline, FALSE)
        /\ CountByte(cmdline, chQUOTE) = 0 =>
              \A i \in 1..Len(cmdres.cmds) : cmdres.cmds[i] # <<>>

\* The quoted text s with its escapes replaced as C27 has it: a backslash
\* and one of a b t n v f r is the control character, a backslash and any
\* other character is that character, all of its bytes; the rest is kept.
RECURSIVE Unescaped(_)
Unescaped(s) ==
    IF Len(s) = 0 THEN <<>>
    ELSE IF s[1] = chBACKSLASH /\ Len(s) >= 2
    THEN LET w == DecodeRune(Tail(s)).w
         IN  (IF w = 1 /\ s[2] < 128 THEN <<replEscapeChars(s[2])>> ELSE SubSeq(s, 2, 1 + w))
                 \o Unescaped(SubSeq(s, 2 + w, Len(s)))
    ELSE <<s[1]>> \o Unescaped(Tail(s))

\* C27: a line that is one quoted token, from its first byte to its last,
\* gives exactly one token: the quoted text with whitespace kept, escaped
\* quotes inside and the escapes replaced.
C27_QuotedTextUnescaped ==
    (/\ tphase = "done" /\ Len(cmdline) >= 2 /\ cmdline[1] = chQUOTE
     /\ FirstClose(cmdline, 0, FALSE) = Len(cmdline) - 1) =>
        /\ ~cmdres.hang /\ cmdres.err = ErrNone
        /\ cmdres.cmds = <<Unescaped(SubSeq(cmdline, 2, Len(cmdline) - 1))>>

C28_LineTokenCleaned ==
    \A i \in 1..Len(tokens) :
        LET raw == tokens[i].raw
        IN  (Len(raw) > 0 /\ Last(raw) = chNL) =>
                /\ IndexByte(raw, chNL) = Len(raw) - 1
                /\ tokens[i].tok = dropCR(dropIAC(SubSeq(raw, 1, Len(raw) - 1)))

\* C29: when the stream has ended without a newline and without an
\* end-of-transmission byte, all of its bytes are consumed and returned as
\* one final line token, also when they end in an incomplete control
\* sequence.
C29_FinalLineAtEOF ==
    (/\ sphase = "done" /\ Len(stream) > 0
     /\ CountByte(stream, chNL) = 0 /\ CountByte(stream, bEOT) = 0) =>
        /\ Len(tokens) = 1
        /\ tokens[1].final /\ tokens[1].raw = stream

\* What the control sequences of data that start at or after offset k and
\* before index idx make handleIac send to iacout, in order.  Each of them
\* is complete, because the byte at idx follows it or ends it.
RECURSIVE RepliesBefore(_, _, _)
RepliesBefore(data, k, idx) ==
    LET n == IndexByte(SliceFrom(data, k), bIAC)
        p == k + n
    IN  IF k >= Len(data) \/ n < 0 \/ p >= idx THEN <<>>
        ELSE LET l == TelnetCmdLength(At(data, p + 1))
                 h == handleIac(Slice(data, p, p + l))
             IN  (IF h.send THEN <<h.iac>> ELSE <<>>) \o RepliesBefore(data, p + l, idx)

\* C30: a call of scanLines on a buffer with a newline or an
\* end-of-transmission byte returns by the earlier of the two: the line up
\* to the first newline, or the end-of-transmission byte alone, consuming
\* all bytes up to and including it.  The control sequences before it have
\* been dispatched first, and the carried offset is zero afterwards.
C30_EarliestDelimiter ==
    [][ScanSplit =>
         LET inl == IndexByte(buf, chNL)
             ieot == IndexByte(buf, bEOT)
             tk == tokens'[Len(tokens')]
         IN  /\ (inl >= 0 /\ (ieot < 0 \/ inl < ieot)) =>
                   /\ Len(tokens') = Len(tokens) + 1
                   /\ Len(tk.raw) = inl + 1 /\ Len(buf') = Len(buf) - (inl + 1)
                   /\ ~tk.final /\ tk.tok # <<bEOT>>
                   /\ iacsent' = iacsent \o RepliesBefore(buf, lastiiac, inl)
                   /\ lastiiac' = 0
             /\ (ieot >= 0 /\ (inl < 0 \/ ieot < inl)) =>
                   /\ Len(tokens') = Len(tokens) + 1
                   /\ Len(tk.raw) = ieot + 1 /\ Len(buf') = Len(buf) - (ieot + 1)
                   /\ tk.tok = <<bEOT>>
                   /\ iacsent' = iacsent \o RepliesBefore(buf, lastiiac, ieot)
                   /\ lastiiac' = 0
                   /\ sphase' = "done"]_vars

\* C30 witness: in the stream IAC IP EOT NL the end-of-transmission byte
\* precedes the newline; the interrupt was dispatched, the token is the
\* end-of-transmission byte, and the newline is left unconsumed.
C30_Witness ==
    /\ sphase = "done" /\ stream = <<bIAC, bIP, bEOT, chNL>>
    /\ Toks = <<(<<bEOT>>)>> /\ iacsent = <<(<<bIAC, bIP>>)>>
    /\ buf \o rest = <<chNL>> /\ lastiiac = 0


\* What the complete control sequences of data from offset k on make the
\* dispatcher hand to the writer, in order, up to the first
\* end-of-transmission byte outside a sequence.
RECURSIVE StreamReplies(_, _)
StreamReplies(data, k) ==
    IF k >= Len(data) THEN <<>>
    ELSE IF At(data, k) = bEOT THEN <<>>
    ELSE IF At(data, k) # bIAC THEN StreamReplies(data, k + 1)
    ELSE IF Len(data) - k < 2 THEN <<>>
    ELSE LET l == TelnetCmdLength(At(data, k + 1))
         IN  IF Len(data) - k < l THEN <<>>
             ELSE (IF ExpectedReply(Slice(data, k, k + l)) = <<>> THEN <<>>
                   ELSE <<ExpectedReply(Slice(data, k, k + l))>>)
                      \o StreamReplies(data, k + l)

\* The number of bytes of the stream consumed with the first i tokens.
RECURSIVE RawLen(_, _)
RawLen(toks, i) == IF i = 0 THEN 0 ELSE Len(toks[i].raw) + RawLen(toks, i - 1)

\* C31: however the stream is cut into reads, the sequences handed to the
\* writer are those of the stream's control sequences, each once and in
\* stream order: a prefix of them at any time, all of them when the scanner
\* is done; and when a line token has been returned, those of every control
\* sequence before the end of that line have been handed over.
C31_DispatchedOnceInOrder ==
    LET all == StreamReplies(stream, 0)
    IN  /\ Len(iacsent) <= Len(all)
        /\ iacsent = SubSeq(all, 1, Len(iacsent))
        /\ sphase = "done" => iacsent = all
        /\ \A i \in 1..Len(tokens) :
               tokens[i].tok # <<bEOT>> =>
                   Len(iacsent) >=
                       Len(StreamReplies(SubSeq(stream, 1, RawLen(tokens, i)), 0))


\* C32: the clearing at the start of a command removes from c.Cancel only a
\* cancellation raised before the command's line: never the one of an
\* interrupt-process sequence that follows the line in the stream, and
\* never the one set when the session closes, so that the handler finds it
\* when it checks c.Cancel.
C32_LaterCancelNotCleared ==
    [][\A e \in ExecIds :
          (ExecClear(e) /\ Len(Cancel) > 0) =>
              (Head(Cancel) >= 1 /\ Head(Cancel) < execs[e].line)]_vars


\* C33: while the session loop has not returned, no hand-off on the
\* session's channels stays pending for ever: the text of the session loop
\* and of an executor is received by the writer, the reader's reply or
\* interrupt by the writer, the reader's line by the session loop, and an
\* executor's completion by the session loop.  (A sender stays where it is
\* until its message is received, so "not pending again and again" is
\* "received in the end".)
C33_HandOffsAccepted ==
    /\ []<>(hpc # "prompt")
    /\ \A e \in ExecIds : []<>(execs[e].pc # "say_send" \/ Closing)
    /\ []<>(rpc # "sendiac" \/ Closing)
    /\ []<>(rpc # "sendline" \/ Closing)
    /\ \A e \in ExecIds : []<>(execs[e].pc # "senddone" \/ Closing)

\* C33 witness: the writer is writing a unit while an executor waits to hand
\* it a text and the reader waits to hand it a reply; the session is open.
C33_Witness ==
    /\ ~Closing /\ wpc = "write" /\ rpc = "sendiac"
    /\ \E e \in ExecIds : execs[e].pc = "say_send"


\* C34: a negotiation reply that the writer has received stays as the
\* dispatcher built it until the writer has written it, whatever the reader
\* does in between, and these three bytes are what the writer puts on the
\* transport.
C34_ReplyNotShared ==
    [][(wpc = "write" /\ wunit.id > 0) =>
          /\ wunit.bytes \in UnitReplies
          /\ wpc' = "write" => wunit' = wunit
          /\ (wpc' # "write" /\ ~connClosed) => wire' = Append(wire, wunit.bytes)]_vars


\* C35: handle is in writePrompt, where it reads c.Prompt, only when no
\* executor is running; it gets there at its start without a greeter, on an
\* empty line while not busy, and on an executor's completion; and no
\* handler assigns c.Prompt while handle is in writePrompt.
C35_PromptReadAlone ==
    /\ [](hpc = "prompt" => RunningExecs = {})
    /\ [][(hpc # "prompt" /\ hpc' = "prompt") =>
            \/ hpc = "start" /\ ~greeter
            \/ hpc = "select" /\ ~busy /\ rpc = "sendline" /\ ritem.bytes = <<>>
            \/ \E e \in ExecIds : execs[e].pc = "senddone" /\ execs'[e].pc = "finished"]_vars
    /\ [][\A e \in ExecIds, o \in PromptValues :
            HandlerSetPrompt(e, o) => (hpc # "prompt" /\ hpc' # "prompt")]_vars

\* C35 witness: the greeter has set the override and completed, and handle
\* is in writePrompt for the first prompt of the session.
C35_Witness ==
    /\ greeter /\ hpc = "prompt" /\ Prompt = PromptOverride
    /\ execs[1].pc = "finished" /\ nspawn = 1 /\ wire = <<>>

=============================================================================
